---- MODULE Spec2Model ----
(***************************************************************************)
(* Order processing and aggregation core of the Li-Fi Smart Canteen API    *)
(* (src/main.py, src/schemas.py): order creation, status updates, the      *)
(* simulated Li-Fi acknowledgement, order listing and the daily analytics. *)
(*                                                                         *)
(* The MongoDB collection db["order"] is the sequence `orders`, in         *)
(* insertion order; the ObjectId of a document is its position.  Prices    *)
(* are whole currency units.  The clock `now` counts ticks; a UTC day is   *)
(* DayLen ticks long.                                                      *)
(***************************************************************************)
EXTENDS Integers, Sequences, FiniteSets, TLC

VARIABLES
    orders,     \* db["order"]: sequence of order documents
    now,        \* datetime.utcnow(), in ticks
    inflight,   \* requests between two store round trips (SpecConc only)
    last        \* the request answered by the latest step, with its response

vars == <<orders, now, inflight, last>>

\* ---------------------------------------------------------------- bounds

MaxOrders == 2
MaxTime == 3
DayLen == 2
MaxInFlight == 2

\* ------------------------------------------------------ program constants

EtaFloor == 10
EtaPerItem == 5
TopLimit == 5

StatusValues == <<"Pending", "Preparing", "Ready", "Completed">>

\* ----------------------------------------------------------------- inputs

None == [none |-> TRUE]

Line(i, t, q, p) == [item_id |-> i, title |-> t, qty |-> q, price |-> p]

\* Bodies of POST /api/orders.  The last two break the OrderItem field
\* constraints (qty >= 1, price >= 0).
CreateOrderRequests ==
    { [user_id |-> "u1", items |-> <<>>, payment_method |-> "cash"],
      [user_id |-> "u1", payment_method |-> "cash",
       items |-> <<Line("m1", "Samosa", 2, 50), Line("m2", "Tea", 1, 30)>>],
      [user_id |-> "u2", payment_method |-> "card",
       items |-> <<Line("m3", "Samosa", 3, 40), Line("m4", "Idli", 2, 20),
                   Line("m5", "Vada", 2, 15)>>],
      [user_id |-> "u2", payment_method |-> "upi",
       items |-> <<Line("m6", "Coffee", 1, 25), Line("m7", "Lassi", 3, 35),
                   Line("m8", "Poha", 1, 20)>>],
      [user_id |-> "u1", payment_method |-> "cash",
       items |-> <<Line("m1", "Samosa", 0, 50)>>],
      [user_id |-> "u2", payment_method |-> "upi",
       items |-> <<Line("m2", "Tea", 1, 0 - 5)>>] }

\* The bodies used where requests overlap
ConcOrderRequests ==
    { r \in CreateOrderRequests : r.user_id = "u1" /\ Len(r.items) = 2 }

\* The 24-character hex strings of the ObjectIds 1, 2, ...
HexIds == <<"0000000000000000000000a1", "0000000000000000000000a2",
            "0000000000000000000000a3", "0000000000000000000000a4",
            "0000000000000000000000a5">>

\* order_id strings a caller sends: the ids of stored orders, one well-formed
\* id that is never stored, and a string that is no ObjectId.
OrderIdInputs == {HexIds[n] : n \in 1..(MaxOrders + 1)} \cup {"42"}

\* status strings a caller sends to PUT /api/orders/{id}/status
StatusInputs == {"Pending", "Preparing", "Ready", "Completed", "Cancelled"}

\* status: Optional[str] = None, the query parameter of GET /api/orders
Some(s) == [given |-> TRUE, value |-> s]
Absent == [given |-> FALSE, value |-> ""]
StatusFilters == {Some(s) : s \in StatusInputs \cup {""}} \cup {Absent}

LiFiPayloads == {[light |-> "on"], [light |-> "off"]}

\* ------------------------------------------------------------- utilities

Max(a, b) == IF a >= b THEN a ELSE b
Min(a, b) == IF a <= b THEN a ELSE b

Http(code, detail) == [status_code |-> code, detail |-> detail]
Ok(body) == [status_code |-> 200, body |-> body]

\* bson ObjectId(s): the id a 24-character hex string denotes, or InvalidId
InvalidId == 0
ObjectId(s) ==
    IF \E n \in DOMAIN HexIds : HexIds[n] = s
    THEN CHOOSE n \in DOMAIN HexIds : HexIds[n] = s
    ELSE InvalidId

\* str(ObjectId)
str(oid) == HexIds[oid]

\* obj_id_str: the document with its _id replaced by a string id
obj_id_str(doc) ==
    IF doc = None THEN doc
    ELSE [id |-> str(doc.oid),
          user_id |-> doc.user_id, items |-> doc.items, total |-> doc.total,
          payment_method |-> doc.payment_method, status |-> doc.status,
          eta_minutes |-> doc.eta_minutes, qr_code |-> doc.qr_code,
          created_at |-> doc.created_at, updated_at |-> doc.updated_at]

\* ------------------------------------------------------ store primitives

\* collection.find_one({"_id": oid})
find_one(coll, oid) ==
    IF oid \in DOMAIN coll THEN coll[oid] ELSE None

\* update_one taken for update_many with an empty filter
update_many(coll, oid, s, t) ==
    IF oid \in DOMAIN coll
    THEN [coll |-> [i \in DOMAIN coll |->
                      [coll[i] EXCEPT !.status = s, !.updated_at = t]],
          matched_count |-> 1]
    ELSE [coll |-> coll, matched_count |-> 0]

\* collection.update_one({"_id": oid}, {"$set": {"status": s, "updated_at": t}})
update_one(coll, oid, s, t) ==
    IF oid \in DOMAIN coll
    THEN [coll |-> [coll EXCEPT ![oid].status = s, ![oid].updated_at = t],
          matched_count |-> 1]
    ELSE [coll |-> coll, matched_count |-> 0]

\* database.create_document: dump the model, stamp created_at and
\* updated_at, insert, return the new id as a string
create_document(coll, data, t) ==
    LET oid == Len(coll) + 1
        doc == [oid |-> oid,
                user_id |-> data.user_id, items |-> data.items,
                total |-> data.total, payment_method |-> data.payment_method,
                status |-> data.status, eta_minutes |-> data.eta_minutes,
                qr_code |-> data.qr_code,
                created_at |-> t, updated_at |-> t]
    IN [coll |-> Append(coll, doc), id |-> str(oid)]

\* ---------------------------------------------------------- create_order

\* pydantic validation of CreateOrderRequest.items (OrderItem constraints)
ValidItems(items) ==
    \A i \in DOMAIN items : items[i].qty >= 1 /\ items[i].price >= 0

\* the sum with qty left out of the line amount
RECURSIVE LineSumNoQty(_)
LineSumNoQty(items) ==
    IF items = <<>> THEN 0
    ELSE LineSumNoQty(SubSeq(items, 1, Len(items) - 1)) + items[Len(items)].price

\* sum([it.qty * it.price for it in items])
RECURSIVE LineSum(_)
LineSum(items) ==
    IF items = <<>> THEN 0
    ELSE LineSum(SubSeq(items, 1, Len(items) - 1))
         + items[Len(items)].qty * items[Len(items)].price

\* the eta scaled by the summed qty instead of the number of lines
RECURSIVE QtySum(_)
QtySum(items) ==
    IF items = <<>> THEN 0 ELSE Head(items).qty + QtySum(Tail(items))
EtaByQty(items) == Max(EtaFloor, EtaPerItem * QtySum(items))

\* max(10, 5 * len(items))
Eta(items) == Max(EtaFloor, EtaPerItem * Len(items))

\* f"ORDER|{user_id}|{isoformat}|{total}"
QrContent(user_id, t, total) == <<"ORDER", user_id, t, total>>

\* POST /api/orders
create_order(coll, payload, t) ==
    IF ~ValidItems(payload.items)
    THEN [coll |-> coll, resp |-> Http(422, "validation error")]
    ELSE
      LET total == LineSum(payload.items)
          eta == Eta(payload.items)
          order == [user_id |-> payload.user_id, items |-> payload.items,
                    total |-> total, payment_method |-> payload.payment_method,
                    status |-> "Pending", eta_minutes |-> eta,
                    qr_code |-> QrContent(payload.user_id, t, total)]
          ins == create_document(coll, order, t)
          created == find_one(ins.coll, ObjectId(ins.id))
      IN [coll |-> ins.coll, resp |-> Ok(obj_id_str(created))]

\* --------------------------------------------------- update_order_status

\* the handler with "status" missing from the $set document
upd_write_no_status(coll, order_id, status, t) ==
    IF \A k \in DOMAIN StatusValues : StatusValues[k] # status
    THEN [coll |-> coll, done |-> TRUE, resp |-> Http(400, "Invalid status")]
    ELSE IF ObjectId(order_id) = InvalidId
    THEN [coll |-> coll, done |-> TRUE, resp |-> Http(500, "InvalidId")]
    ELSE
      LET cur == find_one(coll, ObjectId(order_id))
          res == update_one(coll, ObjectId(order_id),
                            IF cur = None THEN status ELSE cur.status, t)
      IN IF res.matched_count = 0
         THEN [coll |-> res.coll, done |-> TRUE,
               resp |-> Http(404, "Order not found")]
         ELSE [coll |-> res.coll, done |-> FALSE, resp |-> None]

\* the handler with the status check placed after update_one
upd_write_unchecked(coll, order_id, status, t) ==
    IF ObjectId(order_id) = InvalidId
    THEN [coll |-> coll, done |-> TRUE, resp |-> Http(500, "InvalidId")]
    ELSE
      LET res == update_one(coll, ObjectId(order_id), status, t)
      IN IF \A k \in DOMAIN StatusValues : StatusValues[k] # status
         THEN [coll |-> res.coll, done |-> TRUE,
               resp |-> Http(400, "Invalid status")]
         ELSE IF res.matched_count = 0
         THEN [coll |-> res.coll, done |-> TRUE,
               resp |-> Http(404, "Order not found")]
         ELSE [coll |-> res.coll, done |-> FALSE, resp |-> None]

\* lines 175-179: the status check, then ObjectId(order_id) and update_one.
\* `done` tells whether the handler has answered already.
upd_write(coll, order_id, status, t) ==
    IF \A k \in DOMAIN StatusValues : StatusValues[k] # status
    THEN [coll |-> coll, done |-> TRUE, resp |-> Http(400, "Invalid status")]
    ELSE IF ObjectId(order_id) = InvalidId
    THEN [coll |-> coll, done |-> TRUE, resp |-> Http(500, "InvalidId")]
    ELSE
      LET res == update_one(coll, ObjectId(order_id), status, t)
      IN IF res.matched_count = 0
         THEN [coll |-> res.coll, done |-> TRUE,
               resp |-> Http(404, "Order not found")]
         ELSE [coll |-> res.coll, done |-> FALSE, resp |-> None]

\* lines 180-181: read the document back and return it
upd_read(coll, order_id) ==
    Ok(obj_id_str(find_one(coll, ObjectId(order_id))))

\* PUT /api/orders/{order_id}/status, one request served alone
update_order_status(coll, order_id, status, t) ==
    LET w == upd_write(coll, order_id, status, t)
    IN IF w.done THEN [coll |-> w.coll, resp |-> w.resp]
       ELSE [coll |-> w.coll, resp |-> upd_read(w.coll, order_id)]

\* -------------------------------------------------------------- lifi_send

AckRecord(order_id) ==
    [status |-> "ACK", received |-> TRUE, order_id |-> order_id,
     effect |-> "Order moved to Preparing"]

\* lines 221-223: look the order up
ack_find(coll, order_id) ==
    IF ObjectId(order_id) = InvalidId
    THEN [done |-> TRUE, resp |-> Http(500, "InvalidId")]
    ELSE IF find_one(coll, ObjectId(order_id)) = None
    THEN [done |-> TRUE, resp |-> Http(404, "Order not found")]
    ELSE [done |-> FALSE, resp |-> None]

\* lines 225-226: force the status and acknowledge
ack_write(coll, order_id, t) ==
    [coll |-> update_one(coll, ObjectId(order_id), "Preparing", t).coll,
     resp |-> Ok(AckRecord(order_id))]

\* POST /api/lifi/send, one request served alone
lifi_send(coll, data, t) ==
    LET f == ack_find(coll, data.order_id)
    IN IF f.done THEN [coll |-> coll, resp |-> f.resp]
       ELSE ack_write(coll, data.order_id, t)

\* ------------------------------------------------------------ list_orders

\* the sort with the direction flipped: sort("created_at", 1)
RECURSIVE SortCreatedAsc(_)
SortCreatedAsc(docs) ==
    IF docs = {} THEN {<<>>}
    ELSE UNION { { <<d>> \o rest : rest \in SortCreatedAsc(docs \ {d}) } :
                 d \in { x \in docs :
                           \A y \in docs : y.created_at >= x.created_at } }

\* cursor.sort("created_at", -1): every order of the documents that is
\* non-increasing in created_at (documents with equal keys come in any order)
RECURSIVE SortCreatedDesc(_)
SortCreatedDesc(docs) ==
    IF docs = {} THEN {<<>>}
    ELSE UNION { { <<d>> \o rest : rest \in SortCreatedDesc(docs \ {d}) } :
                 d \in { x \in docs :
                           \A y \in docs : y.created_at <= x.created_at } }

\* query = {"status": status} if status else {}
StatusQuery(status) ==
    IF status.given /\ status.value # ""
    THEN [status |-> status.value] ELSE None

\* collection.find(query)
find(coll, query) ==
    { coll[i] : i \in { j \in DOMAIN coll :
                          query = None \/ coll[j].status = query.status } }

\* GET /api/orders?status=: the responses the handler can give
list_orders(coll, status) ==
    { Ok([k \in DOMAIN sorted |-> obj_id_str(sorted[k])]) :
        sorted \in SortCreatedDesc(find(coll, StatusQuery(status))) }

\* -------------------------------------------------------- analytics_daily

\* datetime(today.year, today.month, today.day)
StartOfDay(t) == (t \div DayLen) * DayLen

\* the $match stage left out
MatchAll(coll, start) == coll

\* {"$match": {"created_at": {"$gte": start}}}
MatchSince(coll, start) ==
    SelectSeq(coll, LAMBDA d : d.created_at >= start)

RECURSIVE SumTotal(_)
SumTotal(docs) ==
    IF docs = <<>> THEN 0 ELSE Head(docs).total + SumTotal(Tail(docs))

\* {"$group": {"_id": None, "total_sales": {"$sum": "$total"}, "orders": {"$sum": 1}}}
GroupAll(docs) ==
    IF docs = <<>> THEN <<>>
    ELSE << [total_sales |-> SumTotal(docs), orders |-> Len(docs)] >>

\* result[0] if result else {"total_sales": 0, "orders": 0}
DailyData(coll, t) ==
    LET result == GroupAll(MatchSince(coll, StartOfDay(t)))
    IN IF result # <<>> THEN result[1] ELSE [total_sales |-> 0, orders |-> 0]

\* {"$unwind": "$items"}
RECURSIVE Unwind(_)
Unwind(coll) ==
    IF coll = <<>> THEN <<>> ELSE Head(coll).items \o Unwind(Tail(coll))

RECURSIVE QtyOf(_, _)
QtyOf(lines, title) ==
    IF lines = <<>> THEN 0
    ELSE (IF Head(lines).title = title THEN Head(lines).qty ELSE 0)
         + QtyOf(Tail(lines), title)

\* the $group stage keyed by "$items.item_id"
RECURSIVE QtyOfItem(_, _)
QtyOfItem(lines, item_id) ==
    IF lines = <<>> THEN 0
    ELSE (IF Head(lines).item_id = item_id THEN Head(lines).qty ELSE 0)
         + QtyOfItem(Tail(lines), item_id)
GroupByItemId(lines) ==
    { [id |-> item_id, count |-> QtyOfItem(lines, item_id)] :
        item_id \in { lines[i].item_id : i \in DOMAIN lines } }

\* {"$group": {"_id": "$items.title", "count": {"$sum": "$items.qty"}}}
GroupByTitle(lines) ==
    { [id |-> title, count |-> QtyOf(lines, title)] :
        title \in { lines[i].title : i \in DOMAIN lines } }

\* {"$sort": {"count": -1}}: every order of the groups that is non-increasing
\* in count (the engine fixes no order among equal counts)
RECURSIVE SortCountDesc(_)
SortCountDesc(groups) ==
    IF groups = {} THEN {<<>>}
    ELSE UNION { { <<g>> \o rest : rest \in SortCountDesc(groups \ {g}) } :
                 g \in { x \in groups : \A y \in groups : y.count <= x.count } }

\* {"$limit": 5}
Limit(s) == SubSeq(s, 1, Min(TopLimit, Len(s)))

TopItems(coll) ==
    { Limit(s) : s \in SortCountDesc(GroupByTitle(Unwind(coll))) }

\* GET /api/analytics/daily: the responses the handler can give
analytics_daily(coll, t) ==
    { Ok([total_sales |-> DailyData(coll, t).total_sales,
          orders |-> DailyData(coll, t).orders,
          top_items |-> top]) : top \in TopItems(coll) }

\* ------------------------------------------------------------- behaviour

Idle == [pc |-> "idle"]
Delivered == [op |-> "none"]

Init ==
    /\ orders = <<>>
    /\ now = 0
    /\ inflight = [s \in 1..MaxInFlight |-> Idle]
    /\ last = Delivered

\* The response of the latest request reaches its caller.
Deliver ==
    /\ last # Delivered
    /\ last' = Delivered
    /\ UNCHANGED <<orders, now, inflight>>

Tick ==
    /\ last = Delivered
    /\ now < MaxTime
    /\ now' = now + 1
    /\ UNCHANGED <<orders, inflight, last>>

CreateOrderFrom(requests) ==
    \E payload \in requests :
        /\ last = Delivered
        /\ Len(orders) < MaxOrders
        /\ LET r == create_order(orders, payload, now)
           IN /\ orders' = r.coll
              /\ last' = [op |-> "createOrder", payload |-> payload,
                          resp |-> r.resp]
        /\ UNCHANGED <<now, inflight>>

CreateOrder == CreateOrderFrom(CreateOrderRequests)

UpdateStatus ==
    \E order_id \in OrderIdInputs, status \in StatusInputs :
        /\ last = Delivered
        /\ LET r == update_order_status(orders, order_id, status, now)
           IN /\ orders' = r.coll
              /\ last' = [op |-> "updateStatus", order_id |-> order_id,
                          status |-> status, resp |-> r.resp]
        /\ UNCHANGED <<now, inflight>>

AcknowledgeViaOptical ==
    \E order_id \in OrderIdInputs, payload \in LiFiPayloads :
        /\ last = Delivered
        /\ LET r == lifi_send(orders, [order_id |-> order_id,
                                       payload |-> payload], now)
           IN /\ orders' = r.coll
              /\ last' = [op |-> "acknowledgeViaOptical",
                          order_id |-> order_id, payload |-> payload,
                          resp |-> r.resp]
        /\ UNCHANGED <<now, inflight>>

ListOrders ==
    \E status \in StatusFilters :
        /\ last = Delivered
        /\ \E r \in list_orders(orders, status) :
              last' = [op |-> "listOrders", status |-> status, resp |-> r]
        /\ UNCHANGED <<orders, now, inflight>>

AnalyticsDaily ==
    /\ last = Delivered
    /\ \E r \in analytics_daily(orders, now) :
          last' = [op |-> "analyticsDaily", resp |-> r]
    /\ UNCHANGED <<orders, now, inflight>>

\* Requests served one at a time.
Next ==
    \/ Deliver
    \/ Tick
    \/ CreateOrder
    \/ UpdateStatus
    \/ AcknowledgeViaOptical
    \/ ListOrders
    \/ AnalyticsDaily

Spec == Init /\ [][Next]_vars

\* ------------------------------------------------- overlapping requests
\* Each handler is one worker; a store round trip is one atomic step, and
\* the steps of different workers interleave freely.  `overwritten` is a
\* history field: another worker wrote the same order after this worker's
\* own update_one.

\* A write to order oid by worker w, as the other workers' records see it
NoteWrite(w, oid) ==
    [s \in DOMAIN inflight |->
        IF s # w /\ inflight[s].pc = "upd_read"
                 /\ ObjectId(inflight[s].order_id) = oid
        THEN [inflight[s] EXCEPT !.overwritten = TRUE]
        ELSE inflight[s]]

\* update_order_status up to and including update_one
UpdWrite(w) ==
    \E order_id \in OrderIdInputs, status \in StatusInputs :
        /\ last = Delivered
        /\ inflight[w] = Idle
        /\ LET r == upd_write(orders, order_id, status, now)
           IN /\ orders' = r.coll
              /\ IF r.done
                 THEN /\ last' = [op |-> "updateStatus",
                                  order_id |-> order_id, status |-> status,
                                  resp |-> r.resp, overwritten |-> FALSE]
                      /\ inflight' = inflight
                 ELSE /\ last' = last
                      /\ inflight' =
                           [NoteWrite(w, ObjectId(order_id)) EXCEPT
                              ![w] = [pc |-> "upd_read",
                                      order_id |-> order_id,
                                      status |-> status,
                                      overwritten |-> FALSE]]
        /\ UNCHANGED now

\* update_order_status from find_one to the response
UpdRead(w) ==
    /\ last = Delivered
    /\ inflight[w].pc = "upd_read"
    /\ last' = [op |-> "updateStatus", order_id |-> inflight[w].order_id,
                status |-> inflight[w].status,
                resp |-> upd_read(orders, inflight[w].order_id),
                overwritten |-> inflight[w].overwritten]
    /\ inflight' = [inflight EXCEPT ![w] = Idle]
    /\ UNCHANGED <<orders, now>>

\* lifi_send up to and including find_one
AckFind(w) ==
    \E order_id \in OrderIdInputs, payload \in LiFiPayloads :
        /\ last = Delivered
        /\ inflight[w] = Idle
        /\ LET r == ack_find(orders, order_id)
           IN IF r.done
              THEN /\ last' = [op |-> "acknowledgeViaOptical",
                               order_id |-> order_id, payload |-> payload,
                               resp |-> r.resp]
                   /\ inflight' = inflight
              ELSE /\ last' = last
                   /\ inflight' = [inflight EXCEPT
                                     ![w] = [pc |-> "ack_write",
                                             order_id |-> order_id,
                                             payload |-> payload]]
        /\ UNCHANGED <<orders, now>>

\* lifi_send from update_one to the response
AckWrite(w) ==
    /\ last = Delivered
    /\ inflight[w].pc = "ack_write"
    /\ LET r == ack_write(orders, inflight[w].order_id, now)
       IN /\ orders' = r.coll
          /\ last' = [op |-> "acknowledgeViaOptical",
                      order_id |-> inflight[w].order_id,
                      payload |-> inflight[w].payload, resp |-> r.resp]
    /\ inflight' = [NoteWrite(w, ObjectId(inflight[w].order_id)) EXCEPT
                      ![w] = Idle]
    /\ UNCHANGED now

ConcCreateOrder == CreateOrderFrom(ConcOrderRequests)

NextConc ==
    \/ Deliver
    \/ Tick
    \/ ConcCreateOrder
    \/ \E w \in DOMAIN inflight : UpdWrite(w)
    \/ \E w \in DOMAIN inflight : UpdRead(w)
    \/ \E w \in DOMAIN inflight : AckFind(w)
    \/ \E w \in DOMAIN inflight : AckWrite(w)

SpecConc == Init /\ [][NextConc]_vars

\* ----------------------------------------------------------------- claims

RECURSIVE FnSum(_, _)
FnSum(f, S) ==
    IF S = {} THEN 0
    ELSE LET x == CHOOSE x \in S : TRUE IN f[x] + FnSum(f, S \ {x})

Recognized == {"Pending", "Preparing", "Ready", "Completed"}

\* the id strings of the stored orders, and the position an id string names
StoredIds(coll) == {HexIds[i] : i \in DOMAIN coll}
Pos(coll, order_id) == CHOOSE i \in DOMAIN coll : HexIds[i] = order_id

Answered(op) == last.op = op /\ last.resp.status_code = 200
NotFound(resp) == resp.status_code = 404
InvalidStatus(resp) == resp.status_code = 400 /\ resp.detail = "Invalid status"

LineAmounts(items) == [k \in DOMAIN items |-> items[k].qty * items[k].price]

\* C1: every stored order's total is the sum of qty * price over its items,
\* and a created order is answered and stored with exactly that sum over the
\* items of the request.
C1_TotalIsLineSum ==
    /\ \A i \in DOMAIN orders :
          orders[i].total =
              FnSum(LineAmounts(orders[i].items), DOMAIN orders[i].items)
    /\ Answered("createOrder") =>
          /\ last.resp.body.items = last.payload.items
          /\ last.resp.body.total =
                FnSum(LineAmounts(last.payload.items),
                      DOMAIN last.payload.items)
          /\ orders[Len(orders)].total = last.resp.body.total
          /\ orders[Len(orders)].items = last.payload.items

\* C1 witness: a two-line order of total 130 that later requests have moved
\* to Completed.
C1_Witness ==
    \E i \in DOMAIN orders :
        /\ Len(orders[i].items) = 2
        /\ orders[i].total = 130
        /\ orders[i].status = "Completed"
        /\ orders[i].updated_at > orders[i].created_at

\* C2: a created order has eta_minutes = max(10, 5 * number of item lines)
\* and status Pending; the eta of a stored order stays that value.
C2_EtaAndInitialStatus ==
    /\ Answered("createOrder") =>
          LET n == Len(last.payload.items)
          IN /\ last.resp.body.eta_minutes = (IF 5 * n > 10 THEN 5 * n ELSE 10)
             /\ last.resp.body.status = "Pending"
             /\ orders[Len(orders)].status = "Pending"
             /\ (n = 0 => last.resp.body.eta_minutes = 10)
    /\ \A i \in DOMAIN orders :
          LET n == Len(orders[i].items)
          IN orders[i].eta_minutes = (IF 5 * n > 10 THEN 5 * n ELSE 10)

\* C2 witness: an order of three lines with summed qty 7 was just created
\* with eta 15.
C2_Witness ==
    /\ Answered("createOrder")
    /\ Len(last.payload.items) = 3
    /\ FnSum([k \in 1..3 |-> last.payload.items[k].qty], 1..3) = 7
    /\ last.resp.body.eta_minutes = 15

\* C3: updateStatus with a status outside the four recognized values fails
\* with InvalidStatus and leaves the order collection as it was, for every
\* order_id.
C3_InvalidStatusRejected ==
    [][(last'.op = "updateStatus" /\ last'.status \notin Recognized)
          => (InvalidStatus(last'.resp) /\ orders' = orders)]_vars

\* C3 witness: an unrecognized status was just refused for a stored order.
C3_Witness ==
    /\ last.op = "updateStatus"
    /\ last.status = "Cancelled"
    /\ last.order_id \in StoredIds(orders)
    /\ InvalidStatus(last.resp)

\* C4: updateStatus with a recognized status fails with NotFound and changes
\* nothing when order_id is not a stored order, and otherwise succeeds from
\* every current status and stores new_status.
C4_NotFoundOrStored ==
    [][(last'.op = "updateStatus" /\ last'.status \in Recognized)
          => IF last'.order_id \in StoredIds(orders)
             THEN /\ last'.resp.status_code = 200
                  /\ orders'[Pos(orders, last'.order_id)].status = last'.status
             ELSE NotFound(last'.resp) /\ orders' = orders]_vars

\* C4, the part that holds: the same for every order_id that is a
\* well-formed ObjectId string; any other order_id changes nothing.
C4_WellFormedIds ==
    [][(last'.op = "updateStatus" /\ last'.status \in Recognized)
          => IF last'.order_id \in StoredIds(orders)
             THEN /\ last'.resp.status_code = 200
                  /\ last'.resp.body.status = last'.status
                  /\ orders'[Pos(orders, last'.order_id)].status = last'.status
             ELSE /\ orders' = orders
                  /\ (\E n \in DOMAIN HexIds : HexIds[n] = last'.order_id)
                        => NotFound(last'.resp)]_vars

\* C5: acknowledgeViaOptical fails with NotFound and changes nothing when
\* the order does not exist, and otherwise answers the ACK record and leaves
\* the order Preparing, for every prior status and payload.
C5_AckOrNotFound ==
    [][(last'.op = "acknowledgeViaOptical")
          => IF last'.order_id \in StoredIds(orders)
             THEN /\ last'.resp.status_code = 200
                  /\ last'.resp.body =
                       [status |-> "ACK", received |-> TRUE,
                        order_id |-> last'.order_id,
                        effect |-> "Order moved to Preparing"]
                  /\ orders'[Pos(orders, last'.order_id)].status = "Preparing"
             ELSE NotFound(last'.resp) /\ orders' = orders]_vars

\* C5, the part that holds: the same for every order_id that is a
\* well-formed ObjectId string; any other order_id changes nothing.
C5_WellFormedIds ==
    [][(last'.op = "acknowledgeViaOptical")
          => IF last'.order_id \in StoredIds(orders)
             THEN /\ last'.resp.status_code = 200
                  /\ last'.resp.body =
                       [status |-> "ACK", received |-> TRUE,
                        order_id |-> last'.order_id,
                        effect |-> "Order moved to Preparing"]
                  /\ orders'[Pos(orders, last'.order_id)].status = "Preparing"
             ELSE /\ orders' = orders
                  /\ (\E n \in DOMAIN HexIds : HexIds[n] = last'.order_id)
                        => NotFound(last'.resp)]_vars

\* C6 as stated: the order a successful updateStatus returns has
\* status = new_status, in every interleaving.
C6_ReturnsNewStatus ==
    Answered("updateStatus") => last.resp.body.status = last.status

\* C6 amended: the order a successful updateStatus returns is the order as
\* stored when the handler reads it back; its status is new_status unless
\* another request wrote the same order after this handler's own write.
C6_ReturnsStoredOrder ==
    Answered("updateStatus") =>
        LET i == Pos(orders, last.order_id)
        IN /\ last.resp.body.id = last.order_id
           /\ last.resp.body.status = orders[i].status
           /\ last.resp.body.updated_at = orders[i].updated_at
           /\ ~last.overwritten => last.resp.body.status = last.status

\* C6 witness: an updateStatus answered with another request's status.
C6_Witness ==
    /\ Answered("updateStatus")
    /\ last.overwritten
    /\ last.resp.body.status # last.status

\* C7: dailyTotals is the sum of total, and the number, of the stored orders
\* created at or after the start of the current day, 0 and 0 when there are
\* none; setting any order's status does not change it.
C7_DailyTotals ==
    /\ Answered("analyticsDaily") =>
          LET today == { i \in DOMAIN orders :
                           orders[i].created_at >= now - (now % DayLen) }
          IN /\ last.resp.body.total_sales =
                   FnSum([i \in DOMAIN orders |-> orders[i].total], today)
             /\ last.resp.body.orders = Cardinality(today)
             /\ today = {} => /\ last.resp.body.total_sales = 0
                              /\ last.resp.body.orders = 0
    /\ \A i \in DOMAIN orders, s \in Recognized :
          DailyData(update_one(orders, i, s, now).coll, now)
              = DailyData(orders, now)

\* C7 witness: the totals were just answered with one order of an earlier
\* day left out and one of today, no longer Pending, counted.
C7_Witness ==
    /\ Answered("analyticsDaily")
    /\ Len(orders) = 2
    /\ orders[1].created_at < now - (now % DayLen)
    /\ orders[2].created_at >= now - (now % DayLen)
    /\ orders[2].status = "Ready"
    /\ orders[1].total > 0
    /\ last.resp.body.orders = 1

AllLines(coll) ==
    UNION { { <<i, j>> : j \in DOMAIN coll[i].items } : i \in DOMAIN coll }
TitleQty(coll, title) ==
    FnSum([p \in AllLines(coll) |->
             IF coll[p[1]].items[p[2]].title = title
             THEN coll[p[1]].items[p[2]].qty ELSE 0], AllLines(coll))
Titles(coll) == { coll[p[1]].items[p[2]].title : p \in AllLines(coll) }

\* C8: topItems holds at most 5 groups (all of them when there are at most
\* 5 titles) over the lines of all stored orders of any day, one per title,
\* each counting the summed qty of the lines of that title whatever their
\* item_id, in non-increasing order of count, and no title left out counts
\* more than a returned one.
C8_TopItems ==
    Answered("analyticsDaily") =>
        LET top == last.resp.body.top_items
        IN /\ Len(top) <= 5
           /\ Len(top) = (IF Cardinality(Titles(orders)) > 5 THEN 5
                          ELSE Cardinality(Titles(orders)))
           /\ \A k \in DOMAIN top :
                 /\ top[k].id \in Titles(orders)
                 /\ top[k].count = TitleQty(orders, top[k].id)
           /\ \A k, l \in DOMAIN top : k # l => top[k].id # top[l].id
           /\ \A k, l \in DOMAIN top : k < l => top[k].count >= top[l].count
           /\ \A t \in Titles(orders) :
                 (\A k \in DOMAIN top : top[k].id # t)
                    => \A k \in DOMAIN top : TitleQty(orders, t) <= top[k].count

\* C8 witness: six titles are on order, one order is from an earlier day,
\* and five groups were just answered.
C8_Witness ==
    /\ Answered("analyticsDaily")
    /\ Cardinality(Titles(orders)) = 6
    /\ Len(last.resp.body.top_items) = 5
    /\ orders[1].created_at < now - (now % DayLen)
    /\ last.resp.body.orders = 1

ListedRight(s) ==
    LET got == last.resp.body
    IN /\ { got[k].id : k \in DOMAIN got }
            = { HexIds[i] : i \in { j \in DOMAIN orders : orders[j].status = s } }
       /\ \A k \in DOMAIN got : got[k].status = s
       /\ \A k, l \in DOMAIN got : k # l => got[k].id # got[l].id
       /\ \A k, l \in DOMAIN got : k < l => got[k].created_at >= got[l].created_at

\* C9 as stated: listing with a status filter s answers exactly the stored
\* orders of status s, newest first.
C9_ListedByStatus ==
    (Answered("listOrders") /\ last.status.given) => ListedRight(last.status.value)

\* C9 amended: the same for every non-empty filter s; an empty filter value
\* is no filter, and every stored order is listed, newest first.
C9_ListedByNonEmptyStatus ==
    (Answered("listOrders") /\ last.status.given) =>
        IF last.status.value # "" THEN ListedRight(last.status.value)
        ELSE LET got == last.resp.body
             IN /\ { got[k].id : k \in DOMAIN got } = StoredIds(orders)
                /\ Len(got) = Len(orders)
                /\ \A k, l \in DOMAIN got :
                      k < l => got[k].created_at >= got[l].created_at

\* C9 witness: two orders created at different times were moved to
\* Preparing and listed by that status.
C9_Witness ==
    /\ Answered("listOrders")
    /\ last.status = Some("Preparing")
    /\ Len(last.resp.body) = 2
    /\ last.resp.body[1].created_at > last.resp.body[2].created_at
    /\ last.resp.body[1].id = HexIds[2]

Rest(doc) ==
    <<doc.oid, doc.user_id, doc.items, doc.total, doc.payment_method,
      doc.eta_minutes, doc.qr_code, doc.created_at>>

\* C10: updateStatus and acknowledgeViaOptical change nothing but status and
\* updated_at of the targeted order, and no step removes or replaces a
\* stored order.
C10_Frame ==
    [][/\ Len(orders') >= Len(orders)
       /\ \A i \in DOMAIN orders : Rest(orders'[i]) = Rest(orders[i])
       /\ (last'.op \in {"updateStatus", "acknowledgeViaOptical"}) =>
             /\ Len(orders') = Len(orders)
             /\ \A i \in DOMAIN orders :
                   HexIds[i] # last'.order_id => orders'[i] = orders[i]]_vars

\* C10 witness: an acknowledgement has just moved the second of two orders,
\* and the first is still Completed.
C10_Witness ==
    /\ Answered("acknowledgeViaOptical")
    /\ Len(orders) = 2
    /\ last.order_id = HexIds[2]
    /\ orders[1].status = "Completed"
    /\ orders[2].status = "Preparing"
    /\ orders[2].updated_at > orders[1].updated_at

====
